---- MODULE Spec2Model ----
(***************************************************************************)
(* Model of src/thomson.py: solve_thomson, the damped relaxation of n      *)
(* point charges on the unit sphere, and the electron class it uses.       *)
(*                                                                         *)
(* Numbers.  The program computes with Python floats.  Here a real x is    *)
(* the integer round(x * Scale) (fixed point, three decimals), and every   *)
(* multiplication, division and square root rounds to the nearest          *)
(* representable value, as a float operation does.  Directions and         *)
(* magnitudes are computed from a rescaled copy of the vector, so that     *)
(* they keep four significant digits for short and for long vectors        *)
(* alike, as a float keeps its relative precision.  Results therefore      *)
(* carry a rounding error (a unit, or a few parts in 10^5 of a large       *)
(* value), and "equal within tolerance" is stated with Eps.  A vector of   *)
(* magnitude 1 is left as it is by normalization, as it is (to the last    *)
(* bit) in the program.  Values stay below 2^31: distances between         *)
(* distinct electrons down to about 0.005 are covered.                     *)
(*                                                                         *)
(* vec3.  The vector class comes from the module vector3, which is not     *)
(* part of src/; it is modelled from the specification's description of    *)
(* the vector collaborator (add, subtract, scale, dot, magnitude,          *)
(* normalize; normalizing the zero vector is undefined).                   *)
(***************************************************************************)
EXTENDS Integers, Sequences, FiniteSets, TLC

\* ------------------------------------------------------------ bounds
\* largest n the model solves for
MaxN == 3
\* iterations of the relaxation loop the model follows (the loop has no cap)
MaxCycles == 3

\* ------------------------------------------------------------ numbers
\* fixed-point unit: the integer k stands for the real k / Scale
Scale == 1000
\* tolerance of the "within floating-point tolerance" comparisons: 0.01
Eps == Scale \div 100
\* the literal 0.9 of line 75
Drag == 900

Abs(a) == IF a < 0 THEN -a ELSE a

\* a / b rounded to nearest (half away from zero), b > 0
RDiv(a, b) == IF a >= 0 THEN (2 * a + b) \div (2 * b)
                        ELSE -((2 * (-a) + b) \div (2 * b))

\* s * x / m rounded to nearest, for s >= 0 and m > 0, with no product
\* larger than the result times m
MulDiv(s, x, m) == (s \div m) * x + RDiv((s % m) * x, m)

\* the whole and the fractional units of a, both with the sign of a
Whole(a) == IF a >= 0 THEN a \div Scale ELSE -((-a) \div Scale)
Frac(a) == a - Whole(a) * Scale

\* product of two reals (the larger factor is split, so that large values
\* do not leave the integer range before the division by Scale)
RMul(a, b) == IF Abs(a) >= Abs(b)
              THEN Whole(a) * b + RDiv(Frac(a) * b, Scale)
              ELSE Whole(b) * a + RDiv(Frac(b) * a, Scale)

RECURSIVE SqrtSearch(_, _, _)
\* largest r in lo..hi with r * r <= x
SqrtSearch(x, lo, hi) ==
    IF lo >= hi THEN lo
    ELSE LET mid == (lo + hi + 1) \div 2
         IN IF mid * mid <= x THEN SqrtSearch(x, mid, hi)
                              ELSE SqrtSearch(x, lo, mid - 1)

\* integer square root of x >= 0, rounded to nearest
ISqrt(x) == LET r == SqrtSearch(x, 0, 40000)
            IN IF x - r * r > r THEN r + 1 ELSE r

\* ------------------------------------------------------------ vec3
vec3(x, y, z) == <<x, y, z>>
Zero == vec3(0, 0, 0)

VAdd(a, b) == vec3(a[1] + b[1], a[2] + b[2], a[3] + b[3])
VSub(a, b) == vec3(a[1] - b[1], a[2] - b[2], a[3] - b[3])
\* vector times real scalar k
VMul(a, k) == vec3(RMul(a[1], k), RMul(a[2], k), RMul(a[3], k))
\* dot product, rounded once
Dot(a, b) ==
    Whole(a[1]) * b[1] + Whole(a[2]) * b[2] + Whole(a[3]) * b[3]
    + RDiv(Frac(a[1]) * b[1] + Frac(a[2]) * b[2] + Frac(a[3]) * b[3], Scale)

\* x*x + y*y + z*z, in units of 1 / Scale^2
SumSq(a) == a[1] * a[1] + a[2] * a[2] + a[3] * a[3]
MaxAbs(a) == LET m == IF Abs(a[1]) >= Abs(a[2]) THEN Abs(a[1]) ELSE Abs(a[2])
             IN IF m >= Abs(a[3]) THEN m ELSE Abs(a[3])
Half(a) == vec3(RDiv(a[1], 2), RDiv(a[2], 2), RDiv(a[3], 2))
Twice(a) == vec3(2 * a[1], 2 * a[2], 2 * a[3])

RECURSIVE Rescale(_)
\* a vector along a /= Zero whose largest component is in 10000..20000:
\* a float keeps its relative precision whatever the size of the vector,
\* and so does a direction or a magnitude computed from the rescaled one
Rescale(a) ==
    IF MaxAbs(a) > 20000 THEN Rescale(Half(a))
    ELSE IF MaxAbs(a) < 10000 THEN Rescale(Twice(a))
    ELSE a

\* a.normalized() * s for a /= Zero and a scalar s >= 0, rounded once
Along(a, s) ==
    LET dd == Rescale(a)
        m == ISqrt(SumSq(dd))
    IN vec3(MulDiv(s, dd[1], m), MulDiv(s, dd[2], m), MulDiv(s, dd[3], m))

\* s * x / m rounded to nearest, for any sign of s, and m > 0
SMulDiv(s, x, m) == IF s >= 0 THEN MulDiv(s, x, m) ELSE -MulDiv(-s, x, m)

RECURSIVE Shrink(_)
\* a vector along p with no component above 2 (a normalized vector is its
\* own: no component of it is above 1)
Shrink(p) == IF MaxAbs(p) > 2 * Scale THEN Shrink(Half(p)) ELSE p

\* v - pn * v.dot(pn) for pn = p.normalized(), p /= Zero: the float pn has
\* magnitude 1 to sixteen digits whatever the magnitude of p, so the
\* component removed is p * (v . p) / (p . p), here rounded once
Tangential(v, p) ==
    LET q == Shrink(p)
        s == q[1] * v[1] + q[2] * v[2] + q[3] * v[3]
        m == SumSq(q)
    IN vec3(v[1] - SMulDiv(s, q[1], m),
            v[2] - SMulDiv(s, q[2], m),
            v[3] - SMulDiv(s, q[3], m))

RECURSIVE Mag(_)
\* Euclidean magnitude
Mag(a) == IF MaxAbs(a) > 20000 THEN 2 * Mag(Half(a)) ELSE ISqrt(SumSq(a))

\* a stands for a vector of magnitude 1: its magnitude differs from 1 by
\* less than the rounding step (every value Along(_, Scale) gives does)
IsNormal(a) ==
    /\ MaxAbs(a) <= Scale + 1
    /\ SumSq(a) > (Scale - 1) * (Scale - 1)
    /\ SumSq(a) < (Scale + 1) * (Scale + 1)

\* a / |a|, for |a| > 0; a vector of magnitude 1 is its own normalization
\* (the float result differs from it in the last bit at most, far below
\* the rounding step here)
Normalized(a) == IF IsNormal(a) THEN a ELSE Along(a, Scale)

\* what normalizing a may give: the unit vector, or, for the zero vector
\* (undefined), either an error or the zero vector unchanged
NormOutcomes(a) == IF a = Zero THEN {"raise", "zero"} ELSE {"unit"}
NormValue(a, o) == IF o = "unit" THEN Normalized(a) ELSE Zero

\* ------------------------------------------------------------ inputs
\* n
NSet == 1..MaxN
\* tolerance: negative, zero, the 1e-2 of line 108, 0.1, and 2 (above
\* every displacement)
TolSet == {-10, 0, 10, 100, 2 * Scale}
\* relaxation_factor: 0, the default 1, 2
RFSet == {0, Scale, 2 * Scale}
\* the raw draws of random.uniform(-1, 1), three per electron
RawSet == { vec3(0, 0, 0),
            vec3(600, 800, 0),
            vec3(800, 600, 0),
            vec3(640, 800, 0),
            vec3(-1000, 200, 500),
            vec3(66, 720, -195) }

VARIABLES n, tolerance, relaxation_factor,
          pc, electrons, idx, idx2,
          current_electron_accels, total_electron_accel,
          old_positions, new_positions, convergence_list,
          converged, cycle_num, result, calls

vars == <<n, tolerance, relaxation_factor, pc, electrons, idx, idx2,
          current_electron_accels, total_electron_accel,
          old_positions, new_positions, convergence_list,
          converged, cycle_num, result, calls>>

\* ------------------------------------------------------------ electron
\* electron.__init__; id is the identity of the object (creation order)
electron(id, pos) == [id |-> id, pos |-> pos, vel |-> Zero]

\* mutant: electrons compared by position
SameElectronByPos(e, e2) == e.pos = e2.pos

\* e == e2 of line 66: electron defines no __eq__, so identity
SameElectron(e, e2) == e.id = e2.id

\* calc_accel raises ZeroDivisionError: 1 / (mag ** 2) with mag ** 2 = 0,
\* that is with the two positions equal
CalcAccelRaises(e, e2) == SumSq(VSub(e.pos, e2.pos)) = 0

\* electron.calc_accel: accel_dir * accel_mag, where accel_mag is
\* 1 / (mag ** 2) and mag ** 2 the sum of the squares of the difference
calc_accel(e, e2) ==
    LET d == VSub(e.pos, e2.pos)
        accel_mag == RDiv(Scale * Scale * Scale, SumSq(d))
    IN Along(d, accel_mag)

\* electron.update_vel
update_vel(e, accel) == [e EXCEPT !.vel = VAdd(e.vel, accel)]

\* electron.update_pos
update_pos(e) == [e EXCEPT !.pos = VAdd(e.pos, e.vel)]

\* ------------------------------------------------------------ phases
\* line 75: e.update_vel((accel - accel * 0.9) * relaxation_factor); the
\* increment is accel * ((1 - 0.9) * relaxation_factor), rounded once
VelIncrement(e, accel) ==
    update_vel(e, VMul(accel, RMul(Scale - Drag, relaxation_factor)))

\* lines 79-80: radial_vel = e.vel.dot(e.pos.normalized()) and
\* e.vel = e.vel - e.pos.normalized() * radial_vel (o: the outcome of the
\* normalization; the zero vector returned leaves the velocity as it is)
Project(e, o) ==
    IF o = "unit" THEN [e EXCEPT !.vel = Tangential(e.vel, e.pos)]
    ELSE [e EXCEPT !.vel = VSub(e.vel, VMul(Zero, Dot(e.vel, Zero)))]

\* mutant: the radial component is not removed
VelPhaseNoProjection(e, accel, o) == VelIncrement(e, accel)

\* mutant: the increment is not scaled by relaxation_factor
VelPhaseNoRelaxation(e, accel, o) ==
    Project(update_vel(e, VMul(accel, Scale - Drag)), o)

\* mutant: the position is updated in the velocity loop
VelPhaseAndMove(e, accel, o) ==
    update_pos(Project(VelIncrement(e, accel), o))

\* lines 73-80: damped velocity increment, then removal of the component
\* along e.pos.normalized() (o: the outcome of that normalization)
VelPhase(e, accel, o) == Project(VelIncrement(e, accel), o)

\* lines 87-88: update_pos, then renormalization (o: its outcome)
PosPhase(e, o) ==
    LET e1 == update_pos(e)
    IN [e1 EXCEPT !.pos = NormValue(e1.pos, o)]

\* mutant: the magnitude of the new position, not of the difference
ConvergenceListOfNew(old, new) ==
    [k \in 1..Len(old) |-> Mag(new[k])]

\* mutant: the last electron is left out
ConvergenceListShort(old, new) ==
    [k \in 1..(Len(old) - 1) |-> Mag(VSub(new[k], old[k]))]

\* lines 92-97: the displacement of every electron in this iteration
ConvergenceList(old, new) ==
    [k \in 1..Len(old) |-> Mag(VSub(new[k], old[k]))]

\* mutant: any instead of all
AnyBelow(list, tol) == \E k \in 1..Len(list) : list[k] < tol

\* mutant: <= instead of <
AllBelowOrEqual(list, tol) == \A k \in 1..Len(list) : list[k] <= tol

\* line 99: all(i < tolerance for i in convergence_list)
AllBelow(list, tol) == \A k \in 1..Len(list) : list[k] < tol

\* mutant: the positions before the last update are returned
ReturnedOld == old_positions

\* line 105: return new_positions
Returned == new_positions

\* ------------------------------------------------------------ state machine
Init ==
    /\ n \in NSet
    /\ tolerance \in TolSet
    /\ relaxation_factor \in RFSet
    /\ pc = "init"
    /\ electrons = <<>>
    /\ idx = 1
    /\ idx2 = 1
    /\ current_electron_accels = <<>>
    /\ total_electron_accel = Zero
    /\ old_positions = <<>>
    /\ new_positions = <<>>
    /\ convergence_list = <<>>
    /\ converged = FALSE
    /\ cycle_num = 0
    /\ result = <<>>
    /\ calls = <<>>

\* lines 41-49: one pass of the initialization loop
InitElectron ==
    /\ pc = "init"
    /\ Len(electrons) < n
    /\ \E raw \in RawSet : \E o \in NormOutcomes(raw) :
         IF o = "raise"
         THEN /\ pc' = "crashed"
              /\ UNCHANGED electrons
         ELSE /\ electrons' = Append(electrons,
                                     electron(Len(electrons) + 1, NormValue(raw, o)))
              /\ pc' = "init"
    /\ UNCHANGED <<n, tolerance, relaxation_factor, idx, idx2,
                   current_electron_accels, total_electron_accel,
                   old_positions, new_positions, convergence_list,
                   converged, cycle_num, result, calls>>

\* lines 53-54: the loop is entered once range(n) is exhausted
EnterLoop ==
    /\ pc = "init"
    /\ Len(electrons) = n
    /\ converged' = FALSE
    /\ cycle_num' = 0
    /\ pc' = "while"
    /\ UNCHANGED <<n, tolerance, relaxation_factor, electrons, idx, idx2,
                   current_electron_accels, total_electron_accel,
                   old_positions, new_positions, convergence_list,
                   result, calls>>

\* lines 55-59: while not converged, an iteration starts
LoopIterate ==
    /\ pc = "while"
    /\ ~converged
    /\ cycle_num < MaxCycles
    /\ pc' = "accel"
    /\ current_electron_accels' = <<>>
    /\ total_electron_accel' = Zero
    /\ idx' = 1
    /\ idx2' = 1
    /\ calls' = <<>>
    /\ UNCHANGED <<n, tolerance, relaxation_factor, electrons,
                   old_positions, new_positions, convergence_list,
                   converged, cycle_num, result>>

\* lines 55, 105: the loop exits and new_positions is returned
Return ==
    /\ pc = "while"
    /\ converged
    /\ pc' = "done"
    /\ result' = Returned
    /\ UNCHANGED <<n, tolerance, relaxation_factor, electrons, idx, idx2,
                   current_electron_accels, total_electron_accel,
                   old_positions, new_positions, convergence_list,
                   converged, cycle_num, calls>>

\* lines 62-67: one pass of the inner loop, for e = electrons[idx] and
\* e2 = electrons[idx2]
AccelPair ==
    /\ pc = "accel"
    /\ idx <= n
    /\ idx2 <= n
    /\ LET e == electrons[idx]
           e2 == electrons[idx2]
       IN IF SameElectron(e, e2)
          THEN /\ idx2' = idx2 + 1
               /\ UNCHANGED <<pc, total_electron_accel, calls>>
          ELSE /\ calls' = Append(calls, <<idx, idx2>>)
               /\ IF CalcAccelRaises(e, e2)
                  THEN /\ pc' = "crashed"
                       /\ UNCHANGED <<idx2, total_electron_accel>>
                  ELSE /\ total_electron_accel' =
                              VAdd(total_electron_accel, calc_accel(e, e2))
                       /\ idx2' = idx2 + 1
                       /\ UNCHANGED pc
    /\ UNCHANGED <<n, tolerance, relaxation_factor, electrons, idx,
                   current_electron_accels,
                   old_positions, new_positions, convergence_list,
                   converged, cycle_num, result>>

\* lines 69, 58-59: the total is appended and the outer loop moves on
AccelAppend ==
    /\ pc = "accel"
    /\ idx <= n
    /\ idx2 > n
    /\ current_electron_accels' =
           Append(current_electron_accels, total_electron_accel)
    /\ idx2' = 1
    /\ IF idx < n
       THEN idx' = idx + 1 /\ pc' = "accel" /\ total_electron_accel' = Zero
       ELSE idx' = 1 /\ pc' = "vel" /\ UNCHANGED total_electron_accel
    /\ UNCHANGED <<n, tolerance, relaxation_factor, electrons,
                   old_positions, new_positions, convergence_list,
                   converged, cycle_num, result, calls>>

\* lines 72-80 (and 83-84 after the last pass): one pass of the velocity
\* loop; when the normalization of line 79 raises, line 75 has run
VelStep ==
    /\ pc = "vel"
    /\ idx <= n
    /\ \E o \in NormOutcomes(electrons[idx].pos) :
         IF o = "raise"
         THEN /\ electrons' =
                   [electrons EXCEPT ![idx] =
                       VelIncrement(electrons[idx], current_electron_accels[idx])]
              /\ pc' = "crashed"
              /\ UNCHANGED <<idx, old_positions, new_positions>>
         ELSE /\ electrons' =
                   [electrons EXCEPT ![idx] =
                       VelPhase(electrons[idx], current_electron_accels[idx], o)]
              /\ IF idx < n
                 THEN /\ idx' = idx + 1
                      /\ pc' = "vel"
                      /\ UNCHANGED <<old_positions, new_positions>>
                 ELSE /\ idx' = 1
                      /\ pc' = "pos"
                      /\ old_positions' = <<>>
                      /\ new_positions' = <<>>
    /\ UNCHANGED <<n, tolerance, relaxation_factor, idx2,
                   current_electron_accels, total_electron_accel,
                   convergence_list, converged, cycle_num, result, calls>>

\* lines 85-89: one pass of the position loop; when the normalization of
\* line 88 raises, lines 86 and 87 have run
PosStep ==
    /\ pc = "pos"
    /\ idx <= n
    /\ \E o \in NormOutcomes(update_pos(electrons[idx]).pos) :
         IF o = "raise"
         THEN /\ pc' = "crashed"
              /\ old_positions' = Append(old_positions, electrons[idx].pos)
              /\ electrons' = [electrons EXCEPT ![idx] = update_pos(electrons[idx])]
              /\ UNCHANGED <<idx, new_positions>>
         ELSE /\ old_positions' = Append(old_positions, electrons[idx].pos)
              /\ electrons' = [electrons EXCEPT ![idx] = PosPhase(electrons[idx], o)]
              /\ new_positions' = Append(new_positions, electrons'[idx].pos)
              /\ IF idx < n
                 THEN idx' = idx + 1 /\ pc' = "pos"
                 ELSE idx' = 1 /\ pc' = "check"
    /\ UNCHANGED <<n, tolerance, relaxation_factor, idx2,
                   current_electron_accels, total_electron_accel,
                   convergence_list, converged, cycle_num, result, calls>>

\* lines 92-100: the convergence check closing an iteration
Check ==
    /\ pc = "check"
    /\ convergence_list' = ConvergenceList(old_positions, new_positions)
    /\ converged' = AllBelow(convergence_list', tolerance)
    /\ cycle_num' = cycle_num + 1
    /\ pc' = "while"
    /\ UNCHANGED <<n, tolerance, relaxation_factor, electrons, idx, idx2,
                   current_electron_accels, total_electron_accel,
                   old_positions, new_positions, result, calls>>

Next ==
    \/ InitElectron
    \/ EnterLoop
    \/ LoopIterate
    \/ Return
    \/ AccelPair
    \/ AccelAppend
    \/ VelStep
    \/ PosStep
    \/ Check

Spec == Init /\ [][Next]_vars

\* ------------------------------------------------------------ properties
\* the direction of p: p normalized, the zero vector left as it is
Unit(p) == IF Mag(p) = 0 THEN Zero ELSE Normalized(p)
\* |p| is 1 within tolerance
IsUnit(p) == Abs(Mag(p) - Scale) <= Eps
\* an iteration has been completed and the loop test is next, or has exited
IterationDone == pc \in {"while", "done"} /\ cycle_num >= 1
\* the displacement of electron k in the last position phase
Displacement(k) == Mag(VSub(new_positions[k], old_positions[k]))

\* the run has ended in the ZeroDivisionError of line 25: the last call of
\* calc_accel was for two point-charges at the same position
CoincidentCrash ==
    /\ pc = "crashed"
    /\ calls /= <<>>
    /\ LET c == calls[Len(calls)]
       IN electrons[c[1]].pos = electrons[c[2]].pos

\* the run has ended in the normalization of a zero vector (lines 46, 79,
\* 88): of a raw draw, or of the position of a point-charge
ZeroNormCrash ==
    /\ pc = "crashed"
    /\ \/ Len(electrons) < n
       \/ \E k \in 1..n : electrons[k].pos = Zero

\* C1: every electron's position has magnitude 1 (within tolerance) right
\* after initialization and after every completed iteration, and so has
\* every returned position.
C1_UnitPositions ==
    /\ pc \in {"init", "while", "done"} =>
          \A k \in 1..Len(electrons) : IsUnit(electrons[k].pos)
    /\ pc = "done" => \A k \in 1..Len(result) : IsUnit(result[k])

\* C2 (as claimed): after every completed iteration the velocity of every
\* electron has no component along the position the electron holds at the
\* end of that iteration (stated with a generous tolerance: 0.01 plus a
\* tenth of the speed).
C2_TangentToNewPosition ==
    IterationDone =>
       \A k \in 1..n :
          IsUnit(old_positions[k]) =>
          10 * Abs(Dot(electrons[k].vel, Unit(electrons[k].pos)))
             <= 10 * Eps + Mag(electrons[k].vel)

\* C2 (amended): the velocity an electron has after a completed iteration
\* has no component along the position the electron held before the
\* position update of that iteration: the velocity loop leaves the velocity
\* tangent to e.pos (within a rounding error relative to the velocity and
\* the acceleration that went into it), the position loop records that
\* e.pos in old_positions and leaves the velocity alone, and nothing writes
\* either until the next velocity loop.
C2_TangentToOldPosition ==
    [][ /\ (pc = "vel" /\ pc' /= "crashed") =>
              Abs(Dot(electrons'[idx].vel, Unit(electrons[idx].pos))) * Scale
                 <= Eps * (Scale + Mag(electrons[idx].vel)
                                 + Mag(current_electron_accels[idx]))
        /\ (pc = "pos" /\ pc' /= "crashed") =>
              old_positions'[idx] = electrons[idx].pos
        /\ pc \in {"pos", "check", "while"} =>
              /\ \A k \in 1..n : electrons'[k].vel = electrons[k].vel
              /\ \A k \in 1..Len(old_positions) :
                    old_positions'[k] = old_positions[k] ]_vars

\* C2 witness: an iteration is complete in which an electron moved with a
\* velocity tangent to its old position and far from tangent to its new one.
C2_Witness ==
    /\ IterationDone
    /\ \E k \in 1..n :
         /\ new_positions[k] /= old_positions[k]
         /\ Abs(Dot(electrons[k].vel, Unit(old_positions[k]))) <= 1
         /\ 10 * Abs(Dot(electrons[k].vel, Unit(electrons[k].pos)))
               > 10 * Eps + Mag(electrons[k].vel)

\* C3: the loop exits exactly when an iteration ends with every displacement
\* strictly below tolerance, and then returns the positions of that
\* iteration; an iteration with some displacement >= tolerance is followed
\* by another iteration (no count of iterations ever ends the loop).
C3_ExitExactlyWhenConverged ==
    [][ (pc = "while" /\ cycle_num >= 1) =>
          IF \A k \in 1..n : Displacement(k) < tolerance
          THEN /\ pc' = "done"
               /\ result' = new_positions
               /\ \A k \in 1..n : result'[k] = electrons[k].pos
          ELSE /\ pc' = "accel"
               /\ cycle_num' = cycle_num
               /\ result' = <<>> ]_vars

\* C3 witness: the loop has exited after an iteration that was not the
\* first, so an unconverged iteration was followed by another.
C3_Witness ==
    /\ pc = "done"
    /\ cycle_num >= 2
    /\ n >= 2
    /\ \A k \in 1..n : Displacement(k) < tolerance

\* C4: on return the sequence has n elements and its i-th element is the
\* final position of the i-th electron created.
C4_OrderPreserved ==
    pc = "done" =>
       /\ Len(result) = n
       /\ \A i \in 1..n : electrons[i].id = i /\ result[i] = electrons[i].pos

\* C4 witness: three electrons returned at three different positions, each
\* moved by the last iteration.
C4_Witness ==
    /\ pc = "done"
    /\ n = 3
    /\ result[1] /= result[2] /\ result[2] /= result[3] /\ result[1] /= result[3]
    /\ \A i \in 1..n : old_positions[i] /= new_positions[i]
                        /\ electrons[i].vel /= result[i]

\* C5: with n = 1 and tolerance > 0 the loop ends after exactly one
\* iteration: the single point-charge gets zero total acceleration, keeps
\* zero velocity, has zero displacement, the convergence flag is set by the
\* first test, and the position returned is the initial position; no error
\* ends the run but the normalization of a zero draw (the case of C1).
C5_OneIterationUnchanged ==
    (n = 1 /\ tolerance > 0) =>
       /\ cycle_num <= 1
       /\ pc \in {"vel", "pos", "check"} => current_electron_accels = <<Zero>>
       /\ Len(electrons) = 1 => electrons[1].vel = Zero
       /\ pc = "check" => new_positions = old_positions
       /\ IterationDone =>
             /\ cycle_num = 1
             /\ converged
             /\ current_electron_accels = <<Zero>>
             /\ convergence_list = <<0>>
             /\ new_positions = old_positions
             /\ new_positions = <<electrons[1].pos>>
       /\ pc = "done" => result = old_positions
       /\ pc = "crashed" => ZeroNormCrash

\* C5 witness: a solve with n = 1 and the tolerance 1e-2 has returned after
\* one iteration the unit vector it drew, whose components are not round.
C5_Witness ==
    /\ n = 1
    /\ tolerance = Eps
    /\ relaxation_factor > 0
    /\ pc = "done"
    /\ cycle_num = 1
    /\ result = old_positions
    /\ result[1] = vec3(88, 961, -260)

\* C6 (as claimed): with relaxation_factor = 0 and tolerance > 0 the loop
\* never converges and never exits.
C6_NeverConverges ==
    (/\ relaxation_factor = 0
     /\ tolerance > 0
     /\ \A k \in 1..Len(electrons) : IsUnit(electrons[k].pos)) =>
       (~converged /\ pc /= "done")

\* C6 (amended): with relaxation_factor = 0 every velocity stays zero, no
\* position changes and every displacement is 0, which is below every
\* tolerance > 0: the loop converges at the end of the first iteration and
\* returns the initial positions.
C6_FrozenConvergesAtOnce ==
    relaxation_factor = 0 =>
       /\ \A k \in 1..Len(electrons) : electrons[k].vel = Zero
       /\ IterationDone =>
            /\ \A k \in 1..n : /\ new_positions[k] = Unit(old_positions[k])
                               /\ new_positions[k] = old_positions[k]
                               /\ convergence_list[k] = 0
            /\ tolerance > 0 => (converged /\ cycle_num = 1)
       /\ (pc = "done" /\ tolerance > 0) => result = old_positions

\* C6 witness: a solve of three electrons at three places with
\* relaxation_factor = 0 has returned after one iteration.
C6_Witness ==
    /\ relaxation_factor = 0
    /\ tolerance > 0
    /\ n = 3
    /\ pc = "done"
    /\ cycle_num = 1
    /\ result[1] /= result[2] /\ result[2] /= result[3] /\ result[1] /= result[3]

\* C7: from the end of initialization on there are n electrons, the ones
\* created, and the acceleration, old-position, new-position and
\* displacement lists of an iteration have n entries each.
C7_CountStable ==
    /\ pc \in {"while", "accel", "vel", "pos", "check", "done"} =>
          /\ Len(electrons) = n
          /\ \A i \in 1..n : electrons[i].id = i
    /\ pc \in {"vel", "pos", "check"} => Len(current_electron_accels) = n
    /\ pc = "check" => (Len(old_positions) = n /\ Len(new_positions) = n)
    /\ IterationDone =>
          /\ Len(current_electron_accels) = n
          /\ Len(old_positions) = n
          /\ Len(new_positions) = n
          /\ Len(convergence_list) = n
    /\ pc = "done" => Len(result) = n

\* C7 witness: three electrons after the second completed iteration.
C7_Witness ==
    /\ n = 3
    /\ pc = "while"
    /\ cycle_num = 2
    /\ Len(convergence_list) = 3

\* C8: within an iteration no position and no velocity is written while the
\* accelerations are computed, all n accelerations exist before the first
\* velocity is written, no position is written while the velocities are
\* updated, and all n velocities are updated before the first position is.
C8_ReadThenWrite ==
    [][ /\ pc = "accel" => electrons' = electrons
        /\ pc = "vel" =>
              \A k \in 1..n : electrons'[k].pos = electrons[k].pos
        /\ (pc = "accel" /\ pc' = "vel") =>
              (idx = n /\ Len(current_electron_accels') = n)
        /\ (pc = "vel" /\ pc' = "pos") => idx = n
        /\ (\E k \in 1..Len(electrons) :
               electrons'[k].vel /= electrons[k].vel) => pc = "vel"
        /\ (\E k \in 1..Len(electrons) :
               electrons'[k].pos /= electrons[k].pos) => pc = "pos" ]_vars

\* C8 witness: in the second iteration every velocity has been updated and
\* projected and no position has been updated yet.
C8_Witness ==
    /\ pc = "pos"
    /\ idx = 1
    /\ n = 3
    /\ cycle_num = 1
    /\ new_positions = <<>>
    /\ \A k \in 1..n : electrons[k].vel /= Zero

\* the k-th pair (i, j), j /= i, of the all-pairs double loop
PairAt(k) ==
    LET i == ((k - 1) \div (n - 1)) + 1
        r == ((k - 1) % (n - 1)) + 1
    IN <<i, IF r < i THEN r ELSE r + 1>>

RECURSIVE SumOthers(_, _)
\* the sum of the contributions to electron i of the electrons 1..j but i
SumOthers(i, j) ==
    IF j = 0 THEN Zero
    ELSE IF j = i THEN SumOthers(i, j - 1)
    ELSE VAdd(SumOthers(i, j - 1), calc_accel(electrons[i], electrons[j]))

\* C9: in the force phase calc_accel is called for electron i with every
\* other electron j /= i once, in order, whatever position j holds, and
\* never with i itself; the total of i is the sum of those contributions.
C9_AllOthersOnce ==
    /\ \A k \in 1..Len(calls) : calls[k] = PairAt(k)
    /\ pc = "accel" =>
          Len(calls) = (idx - 1) * (n - 1)
                       + Cardinality({j \in 1..(idx2 - 1) : j /= idx})
    /\ (pc \in {"vel", "pos", "check"} \/ IterationDone) =>
          Len(calls) = n * (n - 1)
    /\ pc = "vel" =>
          \A i \in 1..n : current_electron_accels[i] = SumOthers(i, n)

\* C9 witness: the third electron holds the position of the first, and
\* calc_accel has been called for the first with the second and with the
\* third, where it divides by zero.
C9_Witness ==
    /\ n = 3
    /\ pc = "crashed"
    /\ calls = << <<1, 2>>, <<1, 3>> >>
    /\ electrons[1].pos = electrons[3].pos
    /\ electrons[1].pos /= electrons[2].pos

\* C10 (as claimed): with tolerance <= 0, and every draw non-zero, the solve
\* never returns and the loop runs on with no error, whatever the positions
\* are.
C10_RunsOnWithNoError ==
    (/\ tolerance <= 0
     /\ Len(electrons) = n
     /\ \A k \in 1..n : IsUnit(electrons[k].pos)) =>
       /\ ~converged
       /\ pc /= "done"
       /\ pc /= "crashed"

\* C10 (amended): with tolerance <= 0 no displacement, being >= 0, is below
\* tolerance, so the convergence flag is never set and the solve never
\* returns; the loop test starts another iteration every time, and the run
\* ends only in an error: the ZeroDivisionError of line 25 when two
\* point-charges are at the same position, or the normalization of a zero
\* vector.
C10_NeverReturns ==
    tolerance <= 0 =>
       /\ ~converged
       /\ pc /= "done"
       /\ result = <<>>
       /\ IterationDone =>
             \A k \in 1..n : convergence_list[k] >= 0
                             /\ ~(convergence_list[k] < tolerance)
       /\ pc = "crashed" => (CoincidentCrash \/ ZeroNormCrash)

\* C10 witness: with tolerance 0 and two unit positions drawn equal, the
\* solve has ended in the ZeroDivisionError of line 25 in the first
\* iteration, no test of the loop having been passed.
C10_Witness ==
    /\ tolerance = 0
    /\ n = 2
    /\ CoincidentCrash
    /\ cycle_num = 0
    /\ ~converged
    /\ \A k \in 1..n : IsUnit(electrons[k].pos)

====
